---- MODULE Spec2Model ----
(***************************************************************************)
(* A model of crossenv (src/crossenv/__init__.py): the CrossEnvBuilder     *)
(* class (target discovery, compiler probe, environment assembly), the     *)
(* parse_env_vars helper and the main() entry point.                       *)
(*                                                                         *)
(* Python strings that the code takes apart (environment rule entries,     *)
(* file paths) are sequences of tokens; a token is a TLA+ string whose     *)
(* Len is the number of characters it stands for.                          *)
(***************************************************************************)
EXTENDS Integers, Sequences, FiniteSets, TLC

VARIABLES
    \* ---- parse_env_vars (one call) ----
    env_vars,       \* the iterable handed to parse_env_vars
    parse_pos,      \* number of entries the for loop has consumed
    parsed,         \* the local list `parsed`
    parse_exc,      \* "none" while running, "returned", or the exception raised
    \* ---- find_sysconfig_data (one call) ----
    disk_files,     \* the target's files: path -> build_time_vars it encodes
    paths,          \* the argument `paths`: a list of directory patterns
    host_sysconfigdata_file,    \* self.host_sysconfigdata_file
    sc_exc,         \* "pending", "none" (returned) or the exception raised
    \* ---- main() and CrossEnvBuilder ----
    caller,         \* "main" (the command line) or "api" (code using the class)
    argv,           \* main: the parsed command line (args)
    kwargs,         \* the keyword arguments of CrossEnvBuilder(...)
    env_dirs,       \* the directories create is to be called on, in order
    target,         \* what is on disk / installed around the host Python
    pc,             \* the statement main (or the API caller) is at
    exc,            \* the exception raised, "none" if none
    exit_status,    \* the process's exit status, -1 while running
    self,           \* the CrossEnvBuilder's attributes
    accessed,       \* file reads and subprocess runs made so far, in order
    fs,             \* the file system under the environment directories
    fs_init,        \* the file system when the program started
    cur,            \* index in env_dirs of the create call in progress
    context,        \* the context object of the create call in progress
    commands,       \* subprocess command lines run by make_build_python, in order
    cross_pip,      \* the cross-pip install command lines run, in order
    venv_calls,     \* venv.EnvBuilder(...).create(dir) calls made, in order
    completed       \* per completed create call: what it left on disk

parseVars == <<env_vars, parse_pos, parsed, parse_exc>>
sysconfigVars == <<disk_files, paths, host_sysconfigdata_file, sc_exc>>

mainVars == <<caller, argv, kwargs, env_dirs, target, pc, exc, exit_status, self,
              accessed, fs, fs_init, cur, context, commands, cross_pip, venv_calls,
              completed>>

vars == <<parseVars, sysconfigVars, mainVars>>

\* --------------------------------------------------------------------------
\* Bounds
\* --------------------------------------------------------------------------
MaxEntries == 2
MaxFiles == 3

\* --------------------------------------------------------------------------
\* Python string helpers (strings are sequences of one-character tokens)
\* --------------------------------------------------------------------------
Letters == {"F", "b", "_"}
Digits == {"1"}
Whitespace == {" "}

\* str.lstrip(): drop the leading whitespace characters
RECURSIVE LStrip(_)
LStrip(s) ==
    IF s = <<>> THEN <<>>
    ELSE IF Head(s) \in Whitespace THEN LStrip(Tail(s)) ELSE s

\* index of the first occurrence of character c in s, 0 when absent
RECURSIVE FindFrom(_, _, _)
FindFrom(s, c, i) ==
    IF i > Len(s) THEN 0
    ELSE IF s[i] = c THEN i ELSE FindFrom(s, c, i + 1)

Find(s, c) == FindFrom(s, c, 1)

\* the last index of c in s at or before i, 0 if there is none (os.path.splitext)
RECURSIVE FindLastFrom(_, _, _)
FindLastFrom(s, c, i) ==
    IF i < 1 THEN 0
    ELSE IF s[i] = c THEN i ELSE FindLastFrom(s, c, i - 1)

\* (mutant) str.rsplit(c, 1): splits at the last occurrence instead
Split1_AtLast(s, c) ==
    LET i == FindLastFrom(s, c, Len(s)) IN
    IF i = 0 THEN <<s>>
    ELSE <<SubSeq(s, 1, i - 1), SubSeq(s, i + 1, Len(s))>>

\* str.split(c, 1): a list of one element (no c in s) or two elements
Split1(s, c) ==
    LET i == Find(s, c) IN
    IF i = 0 THEN <<s>>
    ELSE <<SubSeq(s, 1, i - 1), SubSeq(s, i + 1, Len(s))>>

\* str.isidentifier() on the modelled alphabet
IsIdentifier(s) ==
    /\ s # <<>>
    /\ s[1] \in Letters
    /\ \A i \in 2..Len(s) : s[i] \in Letters \cup Digits

\* s[-1:] : the last character as a string, or the empty string
LastSlice(s) == IF s = <<>> THEN <<>> ELSE <<s[Len(s)]>>

\* `x in '?+:'` is a substring test: the empty string is a substring
InOpChars(x) == x = <<>> \/ (Len(x) = 1 /\ x[1] \in {"?", "+", ":"})

\* --------------------------------------------------------------------------
\* parse_env_vars: the body of the for loop on one entry.
\* Returns [exc, triple]: exc = "none" and the triple appended, or the
\* exception that leaves the function.
\* --------------------------------------------------------------------------
NoTriple == <<>>

ParseNameTail(name, value) ==
    IF InOpChars(LastSlice(name))
    THEN IF name = <<>>
         THEN [exc |-> "IndexError", triple |-> NoTriple]        \* name[-1] on ''
         ELSE LET assign == <<name[Len(name)], "=">>
                  nm == SubSeq(name, 1, Len(name) - 1)
              IN IF IsIdentifier(nm)
                 THEN [exc |-> "none", triple |-> <<nm, assign, value>>]
                 ELSE [exc |-> "ValueError", triple |-> NoTriple]
    ELSE IF IsIdentifier(name)
         THEN [exc |-> "none", triple |-> <<name, <<"=">>, value>>]
         ELSE [exc |-> "ValueError", triple |-> NoTriple]

ParseOne(entry) ==
    LET spec == LStrip(entry)
        parts == Split1(spec, "=")
    IN IF Len(parts) # 2
       \* unpacking one value into `name, value` raises ValueError, which the
       \* `except IndexError` clause does not catch
       THEN [exc |-> "ValueError", triple |-> NoTriple]
       ELSE ParseNameTail(parts[1], parts[2])

\* the whole function, for callers
RECURSIVE ParseAll(_, _)
ParseAll(entries, acc) ==
    IF entries = <<>> THEN [exc |-> "none", parsed |-> acc]
    ELSE LET r == ParseOne(Head(entries)) IN
         IF r.exc # "none" THEN [exc |-> r.exc, parsed |-> acc]
         ELSE ParseAll(Tail(entries), Append(acc, r.triple))

parse_env_vars(entries) == ParseAll(entries, <<>>)

\* --------------------------------------------------------------------------
\* Inputs of parse_env_vars
\* --------------------------------------------------------------------------
Identifiers == {<<"F">>, <<"_", "1">>}
NonIdentifiers == {<<"1", "F">>, <<"F", " ">>, <<"F", "?", "?">>}
Operators == {<<"=">>, <<"?", "=">>, <<"+", "=">>, <<":", "=">>}
Values == {<<>>, <<"b">>, <<"b", ":", "b">>, <<"=", "b">>, <<"?", "=">>}

WellFormedEntries == {n \o op \o v : n \in Identifiers, op \in Operators, v \in Values}
BadNameEntries == {n \o op \o v : n \in NonIdentifiers, op \in Operators, v \in {<<"b">>}}
MalformedEntries == {<<"F">>, <<"=", "b">>, <<"?", "=", "b">>, <<" ", "F", "=", "b">>, <<>>}
Entries == WellFormedEntries \cup BadNameEntries \cup MalformedEntries

SeqsUpTo(S, n) == UNION {[1..k -> S] : k \in 0..n}

\* --------------------------------------------------------------------------
\* parse_env_vars as a state machine: one action per loop iteration
\* --------------------------------------------------------------------------
ParseStart ==
    /\ env_vars \in SeqsUpTo(Entries, MaxEntries)
    /\ parse_pos = 0
    /\ parsed = <<>>
    /\ parse_exc = "none"

ParseIdle ==
    /\ env_vars = <<>>
    /\ parse_pos = 0
    /\ parsed = <<>>
    /\ parse_exc = "idle"

ParseStep ==
    /\ parse_exc = "none"
    /\ parse_pos < Len(env_vars)
    /\ LET r == ParseOne(env_vars[parse_pos + 1]) IN
       /\ parse_pos' = parse_pos + 1
       /\ parse_exc' = r.exc
       /\ parsed' = IF r.exc = "none" THEN Append(parsed, r.triple) ELSE parsed
    /\ UNCHANGED env_vars

ParseReturn ==
    /\ parse_exc = "none"
    /\ parse_pos = Len(env_vars)
    /\ parse_exc' = "returned"
    /\ UNCHANGED <<env_vars, parse_pos, parsed>>

NextParse == (ParseStep \/ ParseReturn) /\ UNCHANGED <<sysconfigVars, mainVars>>

\* --------------------------------------------------------------------------
\* File paths: a path is [dir, base], both token sequences; its string is
\* dir + "/" + base.  "." is always a token of its own, and an extension
\* "pyc" is the tokens "py", "c", so that the glob `.py*` can be matched.
\* --------------------------------------------------------------------------
RECURSIVE StrLen(_)
StrLen(s) == IF s = <<>> THEN 0 ELSE Len(Head(s)) + StrLen(Tail(s))

PathStr(f) == f.dir \o <<"/">> \o f.base

\* x.split('.', 1)[1]: everything after the first '.' of the string
AfterFirstDot(s) == Split1(s, ".")[2]

\* os.path.splitext(filename)[1]: from the last '.' of the base name on
SplitExt(f) ==
    LET i == FindLastFrom(f.base, ".", Len(f.base)) IN
    IF i = 0 THEN <<>> ELSE SubSeq(f.base, i, Len(f.base))

\* glob.glob(os.path.join(path, '_sysconfigdata*.py*')) on one file
MatchesPattern(f) ==
    /\ f.base[1] = "_sysconfigdata"
    /\ \E i \in 2..(Len(f.base) - 1) : f.base[i] = "." /\ f.base[i + 1] = "py"

\* a pattern is [dir, star]: star is a trailing '/*' (one directory level)
InPattern(f, pat) ==
    IF pat.star
    THEN /\ Len(f.dir) = Len(pat.dir) + 2
         /\ SubSeq(f.dir, 1, Len(pat.dir)) = pat.dir
         /\ f.dir[Len(pat.dir) + 1] = "/"
    ELSE f.dir = pat.dir

\* the set sysconfig_paths built by the first two loops
SysconfigCandidates(files, pats) ==
    {f \in DOMAIN files :
        /\ \E k \in 1..Len(pats) : InPattern(f, pats[k])
        /\ MatchesPattern(f)
        /\ files[f].isfile
        /\ SplitExt(f) \in {<<".", "py">>, <<".", "py", "c">>}}

\* key=lambda x: len(x.split('.',1)[1]) on the full path string
SortKey(f) == StrLen(AfterFirstDot(PathStr(f)))

\* sorted(set, key=...): the set's iteration order decides between equal keys
SortedOrders(S) ==
    {o \in [1..Cardinality(S) -> S] :
        /\ \A i, j \in DOMAIN o : i # j => o[i] # o[j]
        /\ \A i, j \in DOMAIN o : i < j => SortKey(o[i]) <= SortKey(o[j])}

\* self.host_sysconfigdata_file before it is assigned
NoFile == [dir |-> <<>>, base |-> <<>>]

\* the loop over the sorted candidates and the final check
LoadCandidates(files, order) ==
    IF order = <<>>
    THEN [exc |-> "FileNotFoundError", file |-> NoFile]
    ELSE IF \E i \in 2..Len(order) :
                files[order[i]].build_time_vars # files[order[1]].build_time_vars
         THEN [exc |-> "ValueError", file |-> order[1]]
         ELSE [exc |-> "none", file |-> order[1]]

\* every outcome find_sysconfig_data can have on these files
find_sysconfig_data(files, pats) ==
    {LoadCandidates(files, o) : o \in SortedOrders(SysconfigCandidates(files, pats))}

\* --------------------------------------------------------------------------
\* Inputs of find_sysconfig_data
\* --------------------------------------------------------------------------
\* installed layout: {host_home}/lib/python3.6 and one directory below it
LibDir == <<"/h/lib/python3", ".", "6">>
PlatDir == LibDir \o <<"/", "plat-linux">>
\* source tree: {host_project_base}/{contents of pybuilddir.txt}
BuildDir == <<"/s/build/lib", ".", "linux-3", ".", "6">>

InstalledPaths == << [dir |-> LibDir, star |-> FALSE], [dir |-> LibDir, star |-> TRUE] >>
SourceTreePaths == << [dir |-> BuildDir, star |-> FALSE] >>

BaseNames ==
    { <<"_sysconfigdata", ".", "py">>,
      <<"_sysconfigdata", ".", "py", "c">>,
      <<"_sysconfigdata", ".", "opt-1", ".", "py", "c">>,
      <<"_sysconfigdata", "_m", ".", "py">>,
      <<"_sysconfigdata", ".", "py", "o">>,
      <<"sysconfig", ".", "py">> }

DiskPaths == {[dir |-> d, base |-> b] : d \in {LibDir, PlatDir, BuildDir}, b \in BaseNames}

\* what is at a path: a regular file encoding build_time_vars, or a directory
\* sysconfig.get_config_var('VERSION') of the running interpreter
BuildVersion == "3.6"

\* build_time_vars of a _sysconfigdata module
VarsA == [VERSION |-> "3.6", CC |-> "gcc"]
VarsB == [VERSION |-> "3.5", CC |-> "gcc"]
NoVars == [VERSION |-> "", CC |-> ""]

FileContents ==
    {[isfile |-> TRUE, build_time_vars |-> v] : v \in {VarsA, VarsB}}
        \cup {[isfile |-> FALSE, build_time_vars |-> NoVars]}

Disks(n) ==
    UNION {[S -> FileContents] : S \in {T \in SUBSET DiskPaths : Cardinality(T) <= n}}

SysconfigStart ==
    /\ disk_files \in Disks(MaxFiles)
    /\ paths \in {InstalledPaths, SourceTreePaths}
    /\ host_sysconfigdata_file = NoFile
    /\ sc_exc = "pending"

SysconfigIdle ==
    /\ disk_files = <<>>
    /\ paths = <<>>
    /\ host_sysconfigdata_file = NoFile
    /\ sc_exc = "idle"

FindSysconfigData ==
    /\ sc_exc = "pending"
    /\ \E r \in find_sysconfig_data(disk_files, paths) :
        /\ sc_exc' = r.exc
        /\ host_sysconfigdata_file' = r.file
    /\ UNCHANGED <<disk_files, paths>>

NextSysconfig == FindSysconfigData /\ UNCHANGED <<parseVars, mainVars>>

\* ==========================================================================
\* CrossEnvBuilder.__init__ : target discovery and compiler probe
\* ==========================================================================
None == "None"
Truthy(x) == x \notin {None, ""}

\* sys.platform of the running interpreter, as host_platform.split('-') sees it
SysPlatform == <<"linux">>

\* the attributes of a CrossEnvBuilder; `assigned` is the set of attributes
\* that exist so far
NewBuilder ==
    [assigned |-> {}, host_sysroot |-> None, host_project_base |-> "",
     host_makefile |-> "", host_home |-> "", host_cc |-> <<>>,
     host_version |-> "", host_platform |-> <<>>,
     build_system_site_packages |-> FALSE, extra_env_vars |-> <<>>,
     clear_build |-> FALSE, clear_cross |-> FALSE, cross_prefix |-> None,
     with_cross_pip |-> FALSE, with_build_pip |-> FALSE, clear |-> FALSE]

SetAttr(b, name, val) == [b EXCEPT ![name] = val, !.assigned = @ \cup {name}]

\* (mutant) construction without the sanity check
VersionCheck_Skipped(host_version) == "none"

\* the sanity check that ends find_host_python
VersionCheck(host_version) ==
    IF host_version # BuildVersion THEN "ValueError: Version mismatch" ELSE "none"

DiscoveryOutcome(e, b, pats, r, acc) ==
    [exc |-> e, self |-> b, paths |-> pats, file |-> r.file, sc_exc |-> r.exc,
     accessed |-> acc]

NotLoaded == [exc |-> "pending", file |-> NoFile]

\* find_host_python from the call of find_sysconfig_data on; r is that call's outcome
AfterSysconfigData(b, t, files, pats, r, acc) ==
    IF r.exc = "ValueError"
    THEN DiscoveryOutcome("ValueError: Malformed Python installation!", b, pats, r, acc)
    ELSE IF r.exc = "FileNotFoundError"
    THEN DiscoveryOutcome("FileNotFoundError: No _sysconfigdata*.py found in host lib",
                          b, pats, r, acc)
    ELSE LET v == files[r.file].build_time_vars
             b1 == SetAttr(SetAttr(b, "host_cc", <<v.CC>>), "host_version", v.VERSION)
             acc1 == acc \o <<"exists(Makefile)">>
         IN IF t.makefile = "missing"
            THEN DiscoveryOutcome("FileNotFoundError: Cannot find Makefile", b1, pats, r, acc1)
            ELSE LET b2 == SetAttr(b1, "host_platform",
                                   IF t.platform = <<>> THEN SysPlatform ELSE t.platform)
                 IN DiscoveryOutcome(VersionCheck(b2.host_version), b2, pats, r,
                                     acc1 \o <<"open(Makefile)">>)

\* every outcome find_host_python can have on target t
find_host_python(b, t, files) ==
    LET acc0 == <<"exists(host_python)">> IN
    IF t.host = "missing"
    THEN {DiscoveryOutcome("FileNotFoundError: host does not exist", b, <<>>, NotLoaded, acc0)}
    ELSE IF t.host = "dir"
    THEN {DiscoveryOutcome("ValueError: Expected a path to a Python executable",
                           b, <<>>, NotLoaded, acc0)}
    ELSE IF t.layout = "source"
    THEN LET b1 == SetAttr(SetAttr(b, "host_project_base", "/s"), "host_makefile", "/s/Makefile")
             acc1 == acc0 \o <<"open(pybuilddir.txt)">>
         IN IF ~t.pybuilddir
            \* the handler formats its message with the undefined name `s`
            THEN {DiscoveryOutcome("NameError: name 's' is not defined",
                                   b1, <<>>, NotLoaded, acc1)}
            ELSE LET b2 == SetAttr(b1, "host_home", "/s") IN
                 {AfterSysconfigData(b2, t, files, SourceTreePaths, r,
                                     acc1 \o <<"glob(_sysconfigdata*.py*)">>) :
                     r \in find_sysconfig_data(files, SourceTreePaths)}
    ELSE LET b1 == SetAttr(SetAttr(b, "host_project_base", "/h/bin"), "host_home", "/h")
             b2 == SetAttr(b1, "host_makefile",
                           IF t.makefile = "missing" THEN ""
                           ELSE "/h/lib/python3.6/config/Makefile")
         IN {AfterSysconfigData(b2, t, files, InstalledPaths, r,
                                acc0 \o <<"glob(Makefile)", "glob(_sysconfigdata*.py*)">>) :
                r \in find_sysconfig_data(files, InstalledPaths)}

\* (mutant) the compiler is not probed when the builder is constructed
find_compiler_info_NotProbed(b, t, acc) == [exc |-> "none", self |-> b, accessed |-> acc]

\* find_compiler_info: [exc, self, accessed]
find_compiler_info(b, t, acc) ==
    LET acc1 == acc \o <<"run(cc --version)">> IN
    IF t.compiler = "FileNotFoundError"
    \* check_output raises FileNotFoundError, which run_compiler does not catch
    THEN [exc |-> "FileNotFoundError: cc", self |-> b, accessed |-> acc1]
    ELSE IF t.compiler = "CalledProcessError"
    THEN [exc |-> "RuntimeError: Cannot run cross-compiler!", self |-> b, accessed |-> acc1]
    ELSE IF b.host_sysroot = None
    THEN [exc |-> "none",
          self |-> SetAttr(b, "host_sysroot",
                           IF t.sysroot_query = "CalledProcessError" THEN None
                           ELSE t.sysroot_query),
          accessed |-> acc1 \o <<"run(cc -print-sysroot)">>]
    ELSE [exc |-> "none", self |-> b, accessed |-> acc1]

\* clear in (...) for the two flags
ClearBuildFlag(clear) == clear \in {"default", "build", "both"}

\* (mutant) the default mode clears cross whether or not cross_prefix is given
ClearCrossFlag_IgnorePrefix(clear, cross_prefix) == clear \in {"default", "cross", "both"}

ClearCrossFlag(clear, cross_prefix) ==
    IF Truthy(cross_prefix)
    THEN clear \in {"cross", "both"}
    ELSE clear \in {"default", "cross", "both"}

\* the rest of __init__ after the two find_ calls: [exc, self]
init_rest(b, kw) ==
    LET b1 == SetAttr(SetAttr(SetAttr(b,
                  "build_system_site_packages", kw.build_system_site_packages),
                  "extra_env_vars", kw.extra_env_vars),
                  "clear_build", ClearBuildFlag(kw.clear))
    IN IF kw.with_cross_pip /\ ~kw.with_build_pip
       THEN [exc |-> "ValueError: Cannot have cross-pip without build-pip", self |-> b1]
       ELSE LET b2 == SetAttr(SetAttr(b1, "with_cross_pip", kw.with_cross_pip),
                              "with_build_pip", kw.with_build_pip)
                b3 == SetAttr(SetAttr(b2,
                          "cross_prefix", IF Truthy(kw.cross_prefix) THEN kw.cross_prefix ELSE None),
                          "clear_cross", ClearCrossFlag(kw.clear, kw.cross_prefix))
            \* super().__init__(system_site_packages=False, clear=False, ...)
            IN [exc |-> "none", self |-> SetAttr(b3, "clear", FALSE)]

\* --------------------------------------------------------------------------
\* main(): what happens to an exception, and the keyword arguments it builds
\* --------------------------------------------------------------------------
\* (mutant) the handler logs the error and goes on with the next directory
AfterException_Continue(who, i, dirs) ==
    IF who = "main" /\ i >= 1 /\ i < Len(dirs)
    THEN [pc |-> "ensure_directories", cur |-> i + 1, exit_status |-> -1]
    ELSE [pc |-> "exit", cur |-> i, exit_status |-> 1]

\* main catches every Exception, logs it and calls sys.exit(1); with no main
\* around it the exception leaves create / the constructor
AfterException(who, i, dirs) ==
    IF who = "main"
    THEN [pc |-> "exit", cur |-> i, exit_status |-> 1]
    ELSE [pc |-> "raised", cur |-> i, exit_status |-> -1]

Raise(e) ==
    LET a == AfterException(caller, cur, env_dirs) IN
    /\ exc' = e
    /\ pc' = a.pc
    /\ cur' = a.cur
    /\ exit_status' = a.exit_status

DefaultKwargs ==
    [clear |-> "False", cross_prefix |-> None, with_cross_pip |-> FALSE,
     with_build_pip |-> FALSE, host_sysroot |-> None,
     build_system_site_packages |-> FALSE, extra_env_vars |-> <<>>]

NoArgv ==
    [clear |-> "False", without_pip |-> FALSE, without_cross_pip |-> FALSE,
     system_site_packages |-> FALSE, env |-> <<>>, sysroot |-> None]

\* the keyword arguments main passes (cross_prefix is not among them)
MainKwargs(a, env) ==
    [clear |-> a.clear, cross_prefix |-> None,
     with_cross_pip |-> ~(a.without_cross_pip \/ a.without_pip),
     with_build_pip |-> ~a.without_pip,
     host_sysroot |-> a.sysroot,
     build_system_site_packages |-> a.system_site_packages,
     extra_env_vars |-> env]

constructVars == <<self, accessed, paths, host_sysconfigdata_file, sc_exc>>
createVars == <<fs, context, commands, cross_pip, venv_calls, completed>>
inputVars == <<caller, argv, env_dirs, target, disk_files, fs_init>>

\* main, lines 683-686: --without-pip implies --without-cross-pip; parse --env
MainStart ==
    /\ pc = "main"
    /\ LET r == parse_env_vars(argv.env) IN
       IF r.exc # "none"
       THEN Raise(r.exc) /\ UNCHANGED kwargs
       ELSE /\ kwargs' = MainKwargs(argv, r.parsed)
            /\ pc' = "find_host_python"
            /\ UNCHANGED <<exc, cur, exit_status>>
    /\ UNCHANGED <<inputVars, constructVars, createVars, parseVars>>

\* __init__, lines 93-94
InitFindHostPython ==
    /\ pc = "find_host_python"
    /\ \E o \in find_host_python(SetAttr(self, "host_sysroot", kwargs.host_sysroot),
                                 target, disk_files) :
        /\ self' = o.self
        /\ paths' = o.paths
        /\ host_sysconfigdata_file' = o.file
        /\ sc_exc' = o.sc_exc
        /\ accessed' = accessed \o o.accessed
        /\ IF o.exc # "none"
           THEN Raise(o.exc)
           ELSE pc' = "find_compiler_info" /\ UNCHANGED <<exc, cur, exit_status>>
    /\ UNCHANGED <<inputVars, kwargs, createVars, parseVars>>

\* __init__, line 95
InitFindCompilerInfo ==
    /\ pc = "find_compiler_info"
    /\ LET o == find_compiler_info(self, target, accessed) IN
        /\ self' = o.self
        /\ accessed' = o.accessed
        /\ IF o.exc # "none"
           THEN Raise(o.exc)
           ELSE pc' = "init_rest" /\ UNCHANGED <<exc, cur, exit_status>>
    /\ UNCHANGED <<inputVars, kwargs, paths, host_sysconfigdata_file, sc_exc,
                   createVars, parseVars>>

\* __init__, lines 96-115, and the start of the loop over ENV_DIR
InitRest ==
    /\ pc = "init_rest"
    /\ LET o == init_rest(self, kwargs) IN
        /\ self' = o.self
        /\ IF o.exc # "none"
           THEN Raise(o.exc)
           ELSE /\ pc' = "ensure_directories"
                /\ cur' = 1
                /\ UNCHANGED <<exc, exit_status>>
    /\ UNCHANGED <<inputVars, kwargs, accessed, paths, host_sysconfigdata_file, sc_exc,
                   createVars, parseVars>>

\* ==========================================================================
\* The file system under the environment directories
\* A path is a sequence of names; fs maps each existing path to what is there.
\* ==========================================================================
File(kind, exec, data, envs, sentinel) ==
    [kind |-> kind, exec |-> exec, data |-> data, envs |-> envs, sentinel |-> sentinel]

Dir == File("dir", FALSE, <<>>, <<>>, 0)
Plain(kind, exec, data) == File(kind, exec, data, <<>>, 0)

IsUnder(p, q) == Len(p) <= Len(q) /\ SubSeq(q, 1, Len(p)) = p
Exists(f, p) == p \in DOMAIN f
Restrict(f, S) == [q \in S |-> f[q]]

\* utils.remove_path(p): p and everything below it
RemovePath(f, p) == Restrict(f, {q \in DOMAIN f : ~IsUnder(p, q)})

\* os.listdir(p)
ListDir(f, p) == {q[Len(p) + 1] : q \in {x \in DOMAIN f : Len(x) = Len(p) + 1 /\ IsUnder(p, x)}}

WriteFile(f, p, c) == [q \in DOMAIN f \cup {p} |-> IF q = p THEN c ELSE f[q]]
WriteAll(f, g) == [q \in DOMAIN f \cup DOMAIN g |-> IF q \in DOMAIN g THEN g[q] ELSE f[q]]
MkdirIfNeeded(f, p) == IF Exists(f, p) THEN f ELSE WriteFile(f, p, Dir)

\* os.path.isfile(target) and os.access(target, os.X_OK)
IsExecutableFile(f, p) == Exists(f, p) /\ f[p].kind # "dir" /\ f[p].exec

\* exe.startswith('activate')
StartsWithActivate(name) == name \in {"activate", "activate.csh"}

RECURSIVE Join(_)
Join(tokens) == IF tokens = <<>> THEN "" ELSE Head(tokens) \o Join(Tail(tokens))

\* --------------------------------------------------------------------------
\* venv.EnvBuilder(clear=..., with_pip=...).create(dir), as crossenv uses it
\* --------------------------------------------------------------------------
\* context.python_exe: the base name of the running interpreter
PythonExe == "python3"

\* EnvBuilder.ensure_directories: clear_directory if asked, then the skeleton
VenvDirectories(f, dir, clear) ==
    LET f1 == IF Exists(f, dir) /\ clear
              THEN Restrict(f, {q \in DOMAIN f : ~IsUnder(dir, q) \/ q = dir})
              ELSE f
    IN WriteAll(f1, [q \in {dir, dir \o <<"bin">>, dir \o <<"lib">>, dir \o <<"include">>} |->
                        Dir])

\* create_configuration and setup_python: pyvenv.cfg and the interpreter
VenvPython(f, dir) ==
    LET f1 == WriteFile(f, dir \o <<"pyvenv.cfg">>, Plain("pyvenv.cfg", FALSE, <<"home", "/usr/bin">>))
        f2 == WriteFile(f1, dir \o <<"bin", PythonExe>>, Plain("python", TRUE, <<>>))
    IN IF Exists(f2, dir \o <<"bin", "python">>) THEN f2
       ELSE WriteFile(f2, dir \o <<"bin", "python">>, Plain("symlink", TRUE, <<PythonExe>>))

\* _setup_pip: python -m ensurepip
VenvPip(f, dir) ==
    WriteAll(f, (dir \o <<"bin", "pip">>) :> Plain("pip", TRUE, <<>>)
                @@ (dir \o <<"lib", "pip">>) :> Plain("package", FALSE, <<"ensurepip">>))

\* setup_scripts: the activation scripts
VenvScripts(f, dir) ==
    WriteAll(f, (dir \o <<"bin", "activate">>) :> Plain("activate", FALSE, <<>>)
                @@ (dir \o <<"bin", "activate.csh">>) :> Plain("activate", FALSE, <<>>))

\* ==========================================================================
\* CrossEnvBuilder.create
\* ==========================================================================
NoContext ==
    [env_dir |-> "", cross_env_dir |-> <<>>, sentinel |-> 0,
     build_pip_reqs |-> <<>>, build_pip_version |-> <<>>]

EnvDir == <<env_dirs[cur]>>

\* (mutant) ensure_directories that clears nothing before building the skeleton
ensure_directories_NoClear(b, f, d) ==
    MkdirIfNeeded(VenvDirectories(f, d, b.clear), d \o <<"lib">>)

\* ensure_directories: the file system it leaves
ensure_directories(b, f, d) ==
    LET f1 == IF Exists(f, d) /\ (b.clear_cross \/ b.clear_build)
              THEN Restrict(f, {q \in DOMAIN f :
                        \/ ~IsUnder(d, q)
                        \/ q = d
                        \/ q[Len(d) + 1] \in {"cross", "build"}})
              ELSE f
    \* super().ensure_directories(env_dir), with self.clear = False
    IN MkdirIfNeeded(VenvDirectories(f1, d, b.clear), d \o <<"lib">>)

EnsureDirectories ==
    /\ pc = "ensure_directories"
    /\ fs' = ensure_directories(self, fs, EnvDir)
    /\ context' = [NoContext EXCEPT !.env_dir = env_dirs[cur]]
    /\ pc' = "create_configuration"
    /\ UNCHANGED <<inputVars, kwargs, constructVars, exc, exit_status, cur,
                   commands, cross_pip, venv_calls, completed, parseVars>>

\* platform.machine() of the running machine
BuildMachine == "x86_64"
\* sys.platform[0].title() and sys.platform[-1]
SysPlatformFirstTitle == "L"
SysPlatformLast == "x"

\* the uname section: sysname and machine are read from sys.platform, whatever
\* host_platform.split('-') holds; only its length is looked at
UnameSection(b) ==
    IF Len(b.host_platform) = 1
    THEN <<SysPlatformFirstTitle, BuildMachine>>
    ELSE <<SysPlatformFirstTitle, SysPlatformLast>>

CreateConfiguration ==
    /\ pc = "create_configuration"
    /\ fs' = WriteFile(fs, EnvDir \o <<"crossenv.cfg">>,
                       Plain("crossenv.cfg", FALSE, UnameSection(self)))
    /\ pc' = "make_build_python"
    /\ UNCHANGED <<inputVars, kwargs, constructVars, exc, exit_status, cur, context,
                   commands, cross_pip, venv_calls, completed, parseVars>>

\* pip freeze --all in the build environment
PipFreeze == << <<"pip", "9.0">>, <<"setuptools", "28.8">>, <<"wheel", "0.30">> >>

\* the loop over all_reqs: keep pip and setuptools
RECURSIVE BuildPipReqs(_)
BuildPipReqs(reqs) ==
    IF reqs = <<>> THEN <<>>
    ELSE IF Head(reqs)[1] \in {"pip", "setuptools"}
         THEN <<Head(reqs)>> \o BuildPipReqs(Tail(reqs))
         ELSE BuildPipReqs(Tail(reqs))

BuildPipVersion(reqs) ==
    LET pips == SelectSeq(reqs, LAMBDA r : r[1] = "pip") IN
    IF pips = <<>> THEN <<>> ELSE pips[Len(pips)]

\* (mutant) the build environment created without the clear argument
BuildClearArg_Never(b) == FALSE

\* clear=self.clear_build in the EnvBuilder call
BuildClearArg(b) == b.clear_build

Cmd(exe, what) == [exe |-> exe, cmd |-> what]
VenvCall(which, dir, clear, with_pip) ==
    [env |-> which, dir |-> dir, clear |-> clear, with_pip |-> with_pip]

\* make_build_python.  fail names the subprocess that exits with an error
\* ("none": all succeed); the result is [exc, fs, context, commands].
make_build_python(b, t, f, ctx, fail) ==
    LET bdir == <<ctx.env_dir, "build">>
        exe == bdir \o <<"bin", PythonExe>>
        f1 == VenvPython(VenvDirectories(f, bdir, BuildClearArg(b)), bdir)
        c1 == IF b.with_build_pip THEN <<Cmd(exe, "-m ensurepip")>> ELSE <<>>
        f2 == VenvScripts(IF b.with_build_pip THEN VenvPip(f1, bdir) ELSE f1, bdir)
        c2 == c1 \o <<Cmd(exe, "-c sys.path")>>
        c3 == c2 \o <<Cmd(exe, "-m pip freeze")>>
        ctx3 == [ctx EXCEPT !.build_pip_reqs = BuildPipReqs(PipFreeze),
                            !.build_pip_version = BuildPipVersion(PipFreeze)]
        c4 == c3 \o <<Cmd(exe, "-m pip install --ignore-installed")>>
        f4 == WriteFile(f2, bdir \o <<"lib", "pip">>, Plain("package", FALSE, <<"stock">>))
        Failed(ff, cc, cx) == [exc |-> "CalledProcessError", fs |-> ff, context |-> cx, commands |-> cc]
        Done(ff, cc, cx) == [exc |-> "none", fs |-> ff, context |-> cx, commands |-> cc]
    IN IF fail = "ensurepip" THEN Failed(f1, c1, ctx)
       ELSE IF fail = "sys.path" THEN Failed(f2, c2, ctx)
       ELSE IF ~b.with_build_pip THEN Done(f2, c2, ctx)
       ELSE IF fail = "pip freeze" THEN Failed(f2, c3, ctx)
       ELSE IF ~t.pip_unbundled THEN Done(f2, c3, ctx3)
       ELSE IF fail = "pip install" THEN Failed(f2, c4, ctx3)
       ELSE Done(f4, c4, ctx3)

\* the subprocesses make_build_python runs for this builder on this machine
BuildFailures(b, t) ==
    {"none", "sys.path"}
        \cup (IF b.with_build_pip THEN {"ensurepip", "pip freeze"} ELSE {})
        \cup (IF b.with_build_pip /\ t.pip_unbundled THEN {"pip install"} ELSE {})

MakeBuildPython ==
    /\ pc = "make_build_python"
    /\ \E fail \in BuildFailures(self, target) :
        LET o == make_build_python(self, target, fs, context, fail) IN
        /\ fs' = o.fs
        /\ context' = o.context
        /\ commands' = commands \o o.commands
        /\ venv_calls' = Append(venv_calls,
                VenvCall("build", <<context.env_dir, "build">>, BuildClearArg(self),
                         self.with_build_pip))
        /\ IF o.exc # "none"
           THEN Raise(o.exc)
           ELSE pc' = "make_cross_python" /\ UNCHANGED <<exc, cur, exit_status>>
    /\ UNCHANGED <<inputVars, kwargs, constructVars, cross_pip, completed, parseVars>>

\* os.pathsep.join(libs), as tokens
RECURSIVE JoinPathSep(_)
JoinPathSep(libs) ==
    IF libs = <<>> THEN <<>>
    ELSE IF Len(libs) = 1 THEN <<libs[1]>>
    ELSE <<Head(libs), ":">> \o JoinPathSep(Tail(libs))

LibraryPathRule(libs) == << <<"LIBRARY_PATH">>, <<":", "=">>, JoinPathSep(libs) >>
CPathRule == << <<"CPATH">>, <<":", "=">>, <<"/sr/usr/include">> >>

SysrootRules(b, t) ==
    IF Truthy(b.host_sysroot)
    THEN (IF t.sysroot_libs = <<>> THEN <<>> ELSE <<LibraryPathRule(t.sysroot_libs)>>)
            \o (IF t.sysroot_inc THEN <<CPathRule>> ELSE <<>>)
    ELSE <<>>

\* (mutant) extra_envs is the builder's own list, so the appends land in it
BuilderAfterExtraEnvs_Aliased(b, t) ==
    [b EXCEPT !.extra_env_vars = b.extra_env_vars \o SysrootRules(b, t)]

\* the builder after make_cross_python: extra_envs is a copy,
\* list(self.extra_env_vars), and nothing in create assigns to self
BuilderAfterExtraEnvs(b, t) == b

\* (mutant) the sysroot rules put in front of the user's rules
ExtraEnvs_SysrootFirst(b, t) == SysrootRules(b, t) \o b.extra_env_vars

\* extra_envs = list(self.extra_env_vars) and the appends that follow
ExtraEnvs(b, t) == b.extra_env_vars \o SysrootRules(b, t)

\* clear=self.clear_cross in the EnvBuilder call
CrossClearArg(b) == b.clear_cross

CrossEnvDir(b, env_dir) ==
    IF Truthy(b.cross_prefix) THEN <<b.cross_prefix>> ELSE <<env_dir, "cross">>

\* the executable the cross-pip install is run with
CrossPipExe(build_env_exe, cross_env_exe) == cross_env_exe

\* os.path.splitext(os.path.basename(host_sysconfigdata_file))[0]
SysconfigName(hostfile) ==
    LET i == FindLastFrom(hostfile.base, ".", Len(hostfile.base)) IN
    Join(IF i = 0 THEN hostfile.base ELSE SubSeq(hostfile.base, 1, i - 1))

\* "Remove binaries": every entry of bin whose name does not start with activate
RemoveBinaries(f, cdir) ==
    Restrict(f, {q \in DOMAIN f :
        ~(/\ IsUnder(cdir \o <<"bin">>, q)
          /\ Len(q) > Len(cdir) + 1
          /\ ~StartsWithActivate(q[Len(cdir) + 2]))})

\* make_cross_python.  The result is [exc, fs, context, commands].
make_cross_python(b, t, hostfile, f, ctx, sentinel, fail) ==
    LET cdir == CrossEnvDir(b, ctx.env_dir)
        bexe == <<ctx.env_dir, "build", "bin", PythonExe>>
        cexe == cdir \o <<"bin", PythonExe>>
        lib == <<ctx.env_dir, "lib">>
        f1 == VenvScripts(VenvPython(VenvDirectories(f, cdir, CrossClearArg(b)), cdir), cdir)
        f2 == RemoveBinaries(f1, cdir)
        f3 == WriteFile(f2, cdir \o <<"pyvenv.cfg">>,
                        Plain("pyvenv.cfg", FALSE, <<"home", b.host_project_base>>))
        f4 == WriteFile(f3, cexe,
                        File("pywrapper", TRUE, <<SysconfigName(hostfile)>>, ExtraEnvs(b, t), sentinel))
        f5 == IF Exists(f4, cdir \o <<"bin", "python">>) THEN f4
              ELSE WriteFile(f4, cdir \o <<"bin", "python">>, Plain("symlink", TRUE, <<PythonExe>>))
        f6 == WriteFile(f5, lib \o <<"site.py">>,
                        File("site.py", FALSE, <<SysconfigName(hostfile)>>, <<>>, sentinel))
        f7 == WriteFile(f6, lib \o <<Join(hostfile.base)>>,
                        Plain("sysconfigdata", FALSE, <<Join(PathStr(hostfile))>>))
        f8 == WriteAll(f7, (cdir \o <<"bin", "pip">>) :> Plain("pip", TRUE, <<>>)
                           @@ (cdir \o <<"lib", "pip">>) :> Plain("package", FALSE, <<"cross-pip">>))
        ctx1 == [ctx EXCEPT !.cross_env_dir = cdir, !.sentinel = sentinel]
        pip == <<[exe |-> CrossPipExe(bexe, cexe), cmd |-> "-m pip install --ignore-installed --prefix",
                  prefix |-> cdir, reqs |-> ctx.build_pip_reqs]>>
    IN IF ~b.with_cross_pip
       THEN [exc |-> "none", fs |-> f7, context |-> ctx1, pip |-> <<>>]
       ELSE IF fail = "pip install"
       THEN [exc |-> "CalledProcessError", fs |-> f7, context |-> ctx1, pip |-> pip]
       ELSE [exc |-> "none", fs |-> f8, context |-> ctx1, pip |-> pip]

CrossFailures(b) == {"none"} \cup (IF b.with_cross_pip THEN {"pip install"} ELSE {})

\* random.randint(0, 0xffffffff)
Sentinels == {1, 2}

MakeCrossPython ==
    /\ pc = "make_cross_python"
    /\ \E sentinel \in Sentinels, fail \in CrossFailures(self) :
        LET o == make_cross_python(self, target, host_sysconfigdata_file, fs, context,
                                   sentinel, fail) IN
        /\ fs' = o.fs
        /\ context' = o.context
        /\ cross_pip' = cross_pip \o o.pip
        /\ self' = BuilderAfterExtraEnvs(self, target)
        /\ venv_calls' = Append(venv_calls,
                VenvCall("cross", CrossEnvDir(self, context.env_dir), CrossClearArg(self), FALSE))
        /\ IF o.exc # "none"
           THEN Raise(o.exc)
           ELSE pc' = "post_setup" /\ UNCHANGED <<exc, cur, exit_status>>
    /\ UNCHANGED <<inputVars, kwargs, accessed, paths, host_sysconfigdata_file, sc_exc,
                   commands, completed, parseVars>>

\* the launchers post_setup writes for the executables of one bin directory
Launchers(f, bin, prefix, from) ==
    LET names == {n \in ListDir(f, from) : IsExecutableFile(f, from \o <<n>>)} IN
    [q \in {bin \o <<prefix \o n>> : n \in names} |->
        Plain("launcher", TRUE, from \o <<CHOOSE n \in names : q = bin \o <<prefix \o n>>>>)]

post_setup(f, ctx) ==
    LET bin == <<ctx.env_dir, "bin">>
        f1 == WriteFile(f, bin \o <<"cross-expose">>, Plain("cross-expose", TRUE, <<>>))
        f2 == WriteAll(f1, Launchers(f1, bin, "cross-", ctx.cross_env_dir \o <<"bin">>))
        f3 == WriteAll(f2, Launchers(f2, bin, "build-", <<ctx.env_dir, "build", "bin">>))
    IN WriteFile(f3, bin \o <<"activate">>,
                 Plain("activate", FALSE, ctx.cross_env_dir \o <<"bin", "activate">>))

\* the scripts and configuration files a create call generates, as they are
\* on disk, without the sentinel value
Generated(f, ctx) ==
    LET d == <<ctx.env_dir>>
        S == {q \in DOMAIN f :
                \/ IsUnder(d \o <<"bin">>, q)
                \/ IsUnder(d \o <<"lib">>, q)
                \/ q = d \o <<"crossenv.cfg">>
                \/ q = ctx.cross_env_dir \o <<"pyvenv.cfg">>
                \/ IsUnder(ctx.cross_env_dir \o <<"bin">>, q)}
    IN [q \in S |-> [f[q] EXCEPT !.sentinel = 0]]

\* post_setup, the return of create, and main's loop going on or ending
PostSetup ==
    /\ pc = "post_setup"
    /\ fs' = post_setup(fs, context)
    /\ completed' = Append(completed,
            [env_dir |-> context.env_dir, sentinel |-> context.sentinel,
             generated |-> Generated(fs', context)])
    /\ IF cur < Len(env_dirs)
       THEN /\ cur' = cur + 1
            /\ pc' = "ensure_directories"
            /\ UNCHANGED exit_status
       ELSE /\ cur' = cur
            /\ pc' = IF caller = "main" THEN "exit" ELSE "returned"
            /\ exit_status' = IF caller = "main" THEN 0 ELSE -1
    /\ UNCHANGED <<inputVars, kwargs, constructVars, exc, context, commands, cross_pip,
                   venv_calls, parseVars>>

\* between two create calls the user installs a package with a script into an
\* existing build environment
UserInstallsTool ==
    /\ pc = "ensure_directories"
    /\ cur > 1
    /\ LET bin == <<env_dirs[cur], "build", "bin">> IN
        /\ Exists(fs, bin)
        /\ ~Exists(fs, bin \o <<"tool2">>)
        /\ fs' = WriteFile(fs, bin \o <<"tool2">>, Plain("script", TRUE, <<>>))
    /\ UNCHANGED <<inputVars, kwargs, constructVars, pc, exc, exit_status, cur, context,
                   commands, cross_pip, venv_calls, completed, parseVars>>

\* --------------------------------------------------------------------------
\* Inputs of main() and of the constructor
\* --------------------------------------------------------------------------
MaxDirs == 2

Clears == {"False", "default", "cross", "build", "both"}
EnvDirNames == {"A", "B"}
\* ENV_DIR lists: A alone, or A followed by a repeated directory
DirLists ==
    {l \in SeqsUpTo(EnvDirNames, MaxDirs) :
        l # <<>> /\ l[1] = "A" /\ \A i \in 2..Len(l) : l[i] = l[2]}

UserRule1 == << <<"F">>, <<":", "=">>, <<"b">> >>
UserRule2 == << <<"_", "1">>, <<"?", "=">>, <<"b">> >>
RuleLists == {<<>>, <<UserRule1, UserRule2>>}
MainEnvs == {<<UserRule1[1] \o UserRule1[2] \o UserRule1[3],
                     UserRule2[1] \o UserRule2[2] \o UserRule2[3]>>,
             << <<"1", "F", "=", "b">> >>}

AllTargets ==
    [host : {"missing", "dir", "file"},
     layout : {"source", "installed"},
     pybuilddir : BOOLEAN,
     makefile : {"missing", "present"},
     platform : {<<>>, <<"linux", "aarch64">>},
     compiler : {"ok", "CalledProcessError", "FileNotFoundError"},
     sysroot_query : {"CalledProcessError", "", "/sr"},
     sysroot_libs : {<<>>, <<"/sr/usr/lib", "/sr/usr/lib64">>},
     sysroot_inc : BOOLEAN,
     pip_unbundled : BOOLEAN]

NoTarget ==
    [host |-> "missing", layout |-> "installed", pybuilddir |-> FALSE, makefile |-> "missing",
     platform |-> <<>>, compiler |-> "ok", sysroot_query |-> "", sysroot_libs |-> <<>>,
     sysroot_inc |-> FALSE, pip_unbundled |-> FALSE]

\* the _sysconfigdata files of the targets main is run on
OneFile(d, v) == [dir |-> d, base |-> <<"_sysconfigdata", ".", "py">>] :> [isfile |-> TRUE, build_time_vars |-> v]
PycFile(d, v) == [dir |-> d, base |-> <<"_sysconfigdata", ".", "py", "c">>] :> [isfile |-> TRUE, build_time_vars |-> v]
TargetDisks(d) ==
    {<<>>, OneFile(d, VarsA), OneFile(d, VarsB),
     OneFile(d, VarsA) @@ PycFile(d, VarsA), OneFile(d, VarsA) @@ PycFile(d, VarsB)}
LayoutDir(t) == IF t.layout = "source" THEN BuildDir ELSE LibDir

\* what a previous environment (and its user) left in env_dir / in cross_prefix
EmptyFs == <<>>
OldEnv(d) ==
    [q \in {<<d>>, <<d, "bin">>, <<d, "lib">>, <<d, "build">>, <<d, "build", "bin">>,
            <<d, "build", "lib">>, <<d, "cross">>, <<d, "cross", "bin">>, <<d, "cross", "lib">>} |->
        Dir]
    @@ [q \in {<<d, "notes.txt">>, <<d, "lib", "old.py">>, <<d, "build", "lib", "pkg">>,
               <<d, "cross", "lib", "pkg">>, <<d, "cross", "bin", "activate">>} |->
        Plain("user", FALSE, <<>>)]
    @@ [q \in {<<d, "bin", "old-script">>, <<d, "build", "bin", "tool">>,
               <<d, "cross", "bin", "tool">>} |->
        Plain("script", TRUE, <<>>)]
OldPrefix(d) ==
    [q \in {<<d>>, <<d, "bin">>, <<d, "lib">>} |-> Dir]
    @@ [q \in {<<d, "lib", "pkg">>} |-> Plain("user", FALSE, <<>>)]
    @@ [q \in {<<d, "bin", "tool">>} |-> Plain("script", TRUE, <<>>)]

MainStartState ==
    /\ pc = IF caller = "main" THEN "main" ELSE "find_host_python"
    /\ exc = "none"
    /\ exit_status = -1
    /\ self = NewBuilder
    /\ accessed = <<>>
    /\ paths = <<>>
    /\ host_sysconfigdata_file = NoFile
    /\ sc_exc = "pending"
    /\ fs = fs_init
    /\ cur = 0
    /\ context = NoContext
    /\ commands = <<>>
    /\ cross_pip = <<>>
    /\ venv_calls = <<>>
    /\ completed = <<>>

MainIdle ==
    /\ caller = "none"
    /\ argv = NoArgv
    /\ kwargs = DefaultKwargs
    /\ env_dirs = <<>>
    /\ target = NoTarget
    /\ pc = "idle"
    /\ exc = "none"
    /\ exit_status = -1
    /\ self = NewBuilder
    /\ accessed = <<>>
    /\ fs = EmptyFs
    /\ fs_init = EmptyFs
    /\ cur = 0
    /\ context = NoContext
    /\ commands = <<>>
    /\ cross_pip = <<>>
    /\ venv_calls = <<>>
    /\ completed = <<>>

\* assembly: well-formed targets (and one whose compiler fails), every clear
\* mode, one or more directories, with and without an earlier environment
GoodTarget ==
    [host |-> "file", layout |-> "installed", pybuilddir |-> TRUE, makefile |-> "present",
     platform |-> <<>>, compiler |-> "ok", sysroot_query |-> "/sr",
     sysroot_libs |-> <<"/sr/usr/lib", "/sr/usr/lib64">>, sysroot_inc |-> TRUE,
     pip_unbundled |-> FALSE]
AssemblyTargets ==
    {GoodTarget,
     [GoodTarget EXCEPT !.sysroot_inc = FALSE, !.pip_unbundled = TRUE],
     [GoodTarget EXCEPT !.sysroot_libs = <<>>, !.platform = <<"linux", "aarch64">>],
     [GoodTarget EXCEPT !.sysroot_query = "CalledProcessError"],
     [GoodTarget EXCEPT !.compiler = "CalledProcessError"]}

AssemblyStart ==
    /\ caller \in {"main", "api"}
    /\ target \in AssemblyTargets
    /\ disk_files = OneFile(LibDir, VarsA) @@ PycFile(LibDir, VarsA)
    /\ env_dirs \in DirLists
    /\ IF caller = "main"
       THEN /\ argv \in {a \in [clear : Clears, without_pip : BOOLEAN,
                               without_cross_pip : BOOLEAN, system_site_packages : {FALSE},
                               env : MainEnvs, sysroot : {None}] :
                            a.without_pip => a.without_cross_pip}
            /\ kwargs = DefaultKwargs
            /\ fs_init \in {EmptyFs, OldEnv("A")}
       ELSE /\ argv = NoArgv
            /\ kwargs \in [clear : Clears, cross_prefix : {None, "P"},
                           with_cross_pip : BOOLEAN, with_build_pip : {TRUE},
                           host_sysroot : {None}, build_system_site_packages : {FALSE},
                           extra_env_vars : RuleLists]
            /\ fs_init \in {EmptyFs, OldEnv("A") @@ OldPrefix("P")}
    /\ MainStartState

\* discovery: every kind of target and every combination of keyword arguments,
\* one directory
DiscoveryTargets ==
    {t \in AllTargets :
        /\ t.platform = <<>> /\ t.sysroot_libs = <<>> /\ ~t.sysroot_inc /\ ~t.pip_unbundled
        /\ (t.layout = "installed" => t.pybuilddir)}

DiscoveryStart ==
    /\ caller = "api"
    /\ target \in DiscoveryTargets
    /\ disk_files \in TargetDisks(LayoutDir(target))
    /\ env_dirs = <<"A">>
    /\ argv = NoArgv
    /\ kwargs \in [clear : {"default", "both"}, cross_prefix : {None, "", "P"},
                   with_cross_pip : BOOLEAN, with_build_pip : BOOLEAN,
                   host_sysroot : {None, "/sr"}, build_system_site_packages : {FALSE},
                   extra_env_vars : {<<>>}]
    /\ fs_init = OldEnv("A") @@ OldPrefix("P")
    /\ MainStartState

NextMain ==
    \/ MainStart
    \/ InitFindHostPython
    \/ InitFindCompilerInfo
    \/ InitRest
    \/ EnsureDirectories
    \/ CreateConfiguration
    \/ MakeBuildPython
    \/ MakeCrossPython
    \/ PostSetup
    \/ UserInstallsTool


\* --------------------------------------------------------------------------
\* Specifications
\* --------------------------------------------------------------------------
InitParse == ParseStart /\ SysconfigIdle /\ MainIdle
SpecParse == InitParse /\ [][NextParse]_vars

InitSysconfig == SysconfigStart /\ ParseIdle /\ MainIdle
SpecSysconfig == InitSysconfig /\ [][NextSysconfig]_vars

\* main() or an API caller assembling environments for a well-formed target
Init == AssemblyStart /\ ParseIdle
Next == NextMain
Spec == Init /\ [][Next]_vars

\* an API caller constructing a CrossEnvBuilder on every kind of target and,
\* if that succeeds, calling create once
InitDiscovery == DiscoveryStart /\ ParseIdle
NextDiscovery ==
    \/ InitFindHostPython
    \/ InitFindCompilerInfo
    \/ InitRest
    \/ EnsureDirectories
    \/ CreateConfiguration
    \/ MakeBuildPython
    \/ MakeCrossPython
    \/ PostSetup
SpecDiscovery == InitDiscovery /\ [][NextDiscovery]_vars

\* --------------------------------------------------------------------------
\* Properties of find_sysconfig_data
\* --------------------------------------------------------------------------
Candidates == SysconfigCandidates(disk_files, paths)

\* length of the secondary extension: "py" < "pyc" < "opt-1.pyc"
SecondaryExtLen(f) == StrLen(AfterFirstDot(f.base))

CandidatesConflict ==
    \E f, g \in Candidates :
        disk_files[f].build_time_vars # disk_files[g].build_time_vars

\* C3: with two or more _sysconfigdata candidates (same directory or not),
\* find_sysconfig_data raises ValueError when any two candidates encode
\* different build_time_vars, and otherwise succeeds choosing the candidate
\* with the shortest secondary extension (.py, then .pyc, then .opt-N.pyc).
C3_FindSysconfigData ==
    (sc_exc \notin {"pending", "idle"} /\ Cardinality(Candidates) >= 2) =>
        IF CandidatesConflict
        THEN sc_exc = "ValueError"
        ELSE /\ sc_exc = "none"
             /\ host_sysconfigdata_file \in Candidates
             /\ \A g \in Candidates :
                    SecondaryExtLen(host_sysconfigdata_file) <= SecondaryExtLen(g)

\* --------------------------------------------------------------------------
\* Properties of parse_env_vars
\* --------------------------------------------------------------------------
AllWellFormed(k) == \A i \in 1..k : env_vars[i] \in WellFormedEntries

\* C4: parse_env_vars maps each well-formed entry NAME<op>VALUE (NAME an
\* identifier, <op> one of = ?= += :=) to the triple (NAME, <op>, VALUE),
\* splitting at the first '=' only, one triple per entry in input order, and
\* an entry whose (non-empty) name is not an identifier raises ValueError.
C4_ParseEnvVars ==
    /\ AllWellFormed(parse_pos) =>
          /\ parse_exc \in {"none", "returned"}
          /\ Len(parsed) = parse_pos
          /\ \A i \in 1..parse_pos :
                \A n \in Identifiers, op \in Operators, v \in Values :
                    env_vars[i] = n \o op \o v => parsed[i] = <<n, op, v>>
    /\ (parse_exc = "returned" /\ AllWellFormed(Len(env_vars))) =>
          Len(parsed) = Len(env_vars)
    /\ (parse_pos > 0 /\ AllWellFormed(parse_pos - 1)
            /\ env_vars[parse_pos] \in BadNameEntries) =>
          /\ parse_exc = "ValueError"
          /\ Len(parsed) = parse_pos - 1

\* a well-formed ':=' entry whose value holds ':' was parsed, then an entry
\* with a non-identifier name raised
C4_Witness ==
    /\ env_vars = << <<"F", ":", "=", "b", ":", "b">>, <<"1", "F", "=", "b">> >>
    /\ parse_pos = 2
    /\ parsed = << << <<"F">>, <<":", "=">>, <<"b", ":", "b">> >> >>
    /\ parse_exc = "ValueError"


\* --------------------------------------------------------------------------
\* Construction
\* --------------------------------------------------------------------------
ConstructionEnded ==
    pc \notin {"idle", "main", "find_host_python", "find_compiler_info", "init_rest"}

CrossPipWithoutBuildPip == kwargs.with_cross_pip /\ ~kwargs.with_build_pip

\* C1: constructing with with_cross_pip and without with_build_pip fails with
\* ValueError "Cannot have cross-pip without build-pip" before find_host_python
\* or find_compiler_info has read a file or run a subprocess, whatever the
\* host_python argument is.
C1_CrossPipCheckedFirst ==
    (pc # "idle" /\ CrossPipWithoutBuildPip) =>
        /\ accessed = <<>>
        /\ ConstructionEnded =>
              /\ pc = "raised"
              /\ exc = "ValueError: Cannot have cross-pip without build-pip"

\* discovery has loaded the target's one consistent set of build-time
\* variables, and the VERSION in it is not the running interpreter's
RecordedVersionDiffers ==
    /\ sc_exc = "none"
    /\ disk_files[host_sysconfigdata_file].build_time_vars.VERSION # BuildVersion

BuildEnvExe(d) == <<d, "build", "bin", PythonExe>>

\* C5: the cross-pip install at the end of make_cross_python is run with the
\* build environment's interpreter (build_env_exe -m pip install
\* --ignore-installed --prefix=<cross_env_dir> and the requirements captured in
\* make_build_python); no subprocess of create has the cross launcher
\* (cross_env_exe) as its executable.
C5_CrossPipThroughBuildEnv ==
    /\ \A i \in 1..Len(cross_pip) :
          /\ \E d \in EnvDirNames :
                /\ cross_pip[i].exe = BuildEnvExe(d)
                /\ cross_pip[i].prefix \in {<<d, "cross">>, <<self.cross_prefix>>}
          /\ cross_pip[i].reqs = << <<"pip", "9.0">>, <<"setuptools", "28.8">> >>
    /\ \A i \in 1..Len(commands) : \E d \in EnvDirNames : commands[i].exe = BuildEnvExe(d)
    /\ (pc = "post_setup" /\ kwargs.with_cross_pip) => cross_pip # <<>>

\* make_cross_python has written the launcher of the current directory
LauncherWritten == cur >= 1 /\ context.cross_env_dir # <<>>
Launcher == fs[context.cross_env_dir \o <<"bin", PythonExe>>]

\* the sysroot is known: given by the caller, or reported by the compiler
SysrootResolved ==
    IF kwargs.host_sysroot = None
    THEN target.sysroot_query \notin {"CalledProcessError", ""}
    ELSE kwargs.host_sysroot # ""

\* C6: the rule list given to the launcher is the user's rules, each once and in
\* declaration order, followed by LIBRARY_PATH ':=' (when the sysroot is known
\* and has usr/lib* directories) and then CPATH ':=' (when the sysroot is known
\* and has usr/include); the builder's own extra_env_vars stays as given.
C6_LauncherRules ==
    /\ cur >= 1 => self.extra_env_vars = kwargs.extra_env_vars
    /\ LauncherWritten =>
          LET user == kwargs.extra_env_vars
              envs == Launcher.envs
              rest == SubSeq(envs, Len(user) + 1, Len(envs))
              lib == SysrootResolved /\ target.sysroot_libs # <<>>
              inc == SysrootResolved /\ target.sysroot_inc
          IN /\ Launcher.kind = "pywrapper"
             /\ Len(envs) >= Len(user)
             /\ SubSeq(envs, 1, Len(user)) = user
             /\ Len(rest) = (IF lib THEN 1 ELSE 0) + (IF inc THEN 1 ELSE 0)
             /\ lib => /\ rest[1][1] = <<"LIBRARY_PATH">>
                       /\ rest[1][2] = <<":", "=">>
                       /\ rest[1][3] = <<"/sr/usr/lib", ":", "/sr/usr/lib64">>
             /\ inc => rest[Len(rest)] = << <<"CPATH">>, <<":", "=">>, <<"/sr/usr/include">> >>

C6_Witness ==
    /\ LauncherWritten
    /\ Len(kwargs.extra_env_vars) = 2
    /\ Len(Launcher.envs) = 4
    /\ caller = "main"

\* --------------------------------------------------------------------------
\* Clearing
\* --------------------------------------------------------------------------
BuildDirOf(d) == d \o <<"build">>
StrictlyUnder(dir, q) == IsUnder(dir, q) /\ Len(q) > Len(dir)

\* what a user or an earlier run put there, as opposed to what this step wrote
LeftOver(f, f2, q) == q \in DOMAIN f /\ q \in DOMAIN f2 /\ f2[q] = f[q]

\* q is an entry of dir/bin (or below one) whose name does not start with activate
IsBinary(dir, q) ==
    /\ Len(q) >= Len(dir) + 2
    /\ IsUnder(dir \o <<"bin">>, q)
    /\ ~StartsWithActivate(q[Len(dir) + 2])

\* everything that was below dir is still there
KeepsAll(f, f2, dir) == \A q \in DOMAIN f : IsUnder(dir, q) => q \in DOMAIN f2
\* ... and is as it was
Untouched(f, f2, dir) == \A q \in DOMAIN f : IsUnder(dir, q) => LeftOver(f, f2, q)
\* the files no step of create writes: what the user put into the directories
UserKinds == {"user", "script"}
\* q is gone, or what is there now was written by the step
Removed(f2, q) == q \in DOMAIN f2 => f2[q].kind \notin UserKinds
\* none of the user's files below dir is left
ClearsAll(f, f2, dir) ==
    \A q \in DOMAIN f : (StrictlyUnder(dir, q) /\ f[q].kind \in UserKinds) => Removed(f2, q)

\* ensure_directories on an existing env_dir
EnsureDirectoriesClears ==
    (pc = "ensure_directories" /\ pc' = "create_configuration") =>
        LET d == EnvDir
            sub(q) == q[Len(d) + 1] IN
        /\ Untouched(fs, fs', BuildDirOf(d))
        /\ Untouched(fs, fs', CrossEnvDir(self, d[1]))
        /\ IF self.clear_cross \/ self.clear_build
           THEN \A q \in DOMAIN fs :
                   (StrictlyUnder(d, q) /\ sub(q) \notin {"cross", "build"}) =>
                       \/ q \notin DOMAIN fs'
                       \/ Len(q) = Len(d) + 1 /\ fs'[q] = Dir /\ ListDir(fs', q) = {}
           ELSE KeepsAll(fs, fs', d)

\* make_build_python clears the build environment exactly when clear_build is set
BuildAssemblerClears ==
    pc = "make_build_python" =>
        LET d == EnvDir IN
        /\ Untouched(fs, fs', CrossEnvDir(self, d[1]))
        /\ IF self.clear_build
           THEN ClearsAll(fs, fs', BuildDirOf(d))
           ELSE KeepsAll(fs, fs', BuildDirOf(d))

\* make_cross_python leaves the build environment alone and clears the cross
\* environment when clear_cross is set; when it is not set, binariesToo says
\* whether the existing entries of cross/bin are among what stays
CrossAssemblerClears(binariesToo) ==
    pc = "make_cross_python" =>
        LET d == EnvDir
            cdir == CrossEnvDir(self, d[1])
            f_kind(q) == fs[q].kind IN
        /\ Untouched(fs, fs', BuildDirOf(d))
        /\ IF self.clear_cross
           THEN ClearsAll(fs, fs', cdir)
           ELSE \A q \in DOMAIN fs :
                   IsUnder(cdir, q) =>
                       IF IsBinary(cdir, q) /\ ~binariesToo
                       THEN f_kind(q) \in UserKinds => Removed(fs', q)
                       ELSE q \in DOMAIN fs'

\* C7 (as stated): ensure_directories removes every entry of an existing
\* env_dir except cross and build when a clear flag is set and nothing
\* otherwise; each sub-environment is then cleared only by its own assembler and
\* only if its own flag is set, so with only the build flag set the existing
\* cross environment's contents all stay in place (and with only the cross
\* flag set the build environment's do).
C7_ClearedOnlyByOwnFlag ==
    [][EnsureDirectoriesClears /\ BuildAssemblerClears /\ CrossAssemblerClears(TRUE)]_vars

\* C7 (amended): as stated, except that make_cross_python always removes the
\* existing entries of the cross environment's bin directory whose names do
\* not start with 'activate', whatever the clear flags are; everything else of
\* an uncleared cross environment stays in place.
C7_Clearing ==
    [][EnsureDirectoriesClears /\ BuildAssemblerClears /\ CrossAssemblerClears(FALSE)]_vars

C7_Witness ==
    /\ pc = "post_setup"
    /\ cur = 1
    /\ self.clear_build /\ ~self.clear_cross
    /\ fs_init # EmptyFs
    /\ ~Exists(fs, <<"A", "notes.txt">>)
    /\ ~Exists(fs, <<"A", "build", "bin", "tool">>)
    /\ ~Exists(fs, <<"A", "cross", "bin", "tool">>)
    /\ Exists(fs, <<"A", "cross", "lib", "pkg">>)

\* C8: the build environment is created with clearing exactly when clear is
\* 'default', 'build' or 'both'; the cross environment is created with clearing
\* exactly when clear is 'cross' or 'both', or clear is 'default' and no
\* cross_prefix was given; this is the flag make_cross_python passes to the
\* cross environment's creation.
C8_ClearFlags ==
    /\ cur >= 1 =>
          /\ self.clear_build = (kwargs.clear \in {"default", "build", "both"})
          /\ self.clear_cross = \/ kwargs.clear \in {"cross", "both"}
                                \/ kwargs.clear = "default" /\ kwargs.cross_prefix = None
    /\ \A i \in 1..Len(venv_calls) :
          LET call == venv_calls[i] IN
          /\ call.env = "build" =>
                /\ call.clear = (kwargs.clear \in {"default", "build", "both"})
                /\ call.dir[2] = "build"
          /\ call.env = "cross" =>
                /\ call.clear = \/ kwargs.clear \in {"cross", "both"}
                                \/ kwargs.clear = "default" /\ kwargs.cross_prefix = None
                /\ call.dir = IF kwargs.cross_prefix = None
                              THEN <<env_dirs[i \div 2], "cross">>
                              ELSE <<kwargs.cross_prefix>>

C8_Witness ==
    /\ kwargs.clear = "default"
    /\ kwargs.cross_prefix = "P"
    /\ Len(venv_calls) = 2
    /\ venv_calls[1].clear
    /\ venv_calls[2].env = "cross" /\ ~venv_calls[2].clear
    /\ Exists(fs, <<"P", "lib", "pkg">>)
    /\ ~Exists(fs, <<"A", "build", "lib", "pkg">>)

\* --------------------------------------------------------------------------
\* main
\* --------------------------------------------------------------------------
Creating ==
    pc \in {"ensure_directories", "create_configuration", "make_build_python",
            "make_cross_python", "post_setup"}

\* the generated files recorded when create returned for the i-th directory
\* are on disk as they were then
StillAsCompleted(i) ==
    \A q \in DOMAIN completed[i].generated :
        /\ q \in DOMAIN fs
        /\ [fs[q] EXCEPT !.sentinel = 0] = completed[i].generated[q]

\* C9: main calls create on the ENV_DIR arguments one after another in the
\* order given; when construction or a create raises, no create is started for
\* a later directory, the directories completed before are left as they are,
\* and the process ends with exit status 1.
C9_MainStopsAtFirstFailure ==
    caller = "main" =>
        /\ Len(completed) <= Len(env_dirs)
        /\ \A i \in 1..Len(completed) : completed[i].env_dir = env_dirs[i]
        /\ Creating => Len(completed) = cur - 1 /\ exc = "none"
        /\ \A k \in 1..Len(venv_calls) :
              /\ venv_calls[k].env = (IF k % 2 = 1 THEN "build" ELSE "cross")
              /\ venv_calls[k].dir[1] = env_dirs[(k + 1) \div 2]
              /\ (k + 1) \div 2 <= cur
        /\ exc # "none" =>
              /\ pc = "exit"
              /\ exit_status = 1
              /\ Len(completed) = (IF cur = 0 THEN 0 ELSE cur - 1)
        /\ pc = "exit" => exit_status = (IF exc = "none" THEN 0 ELSE 1)
        /\ (pc = "exit" /\ exc = "none") => Len(completed) = Len(env_dirs)
        /\ \A i \in 1..Len(completed) :
              (\A j \in (i + 1)..cur : env_dirs[j] # env_dirs[i]) => StillAsCompleted(i)

C9_Witness ==
    /\ caller = "main"
    /\ env_dirs[1] = "A" /\ Len(env_dirs) >= 2 /\ env_dirs[2] = "B"
    /\ pc = "exit"
    /\ exit_status = 1
    /\ cur = 2
    /\ Len(completed) = 1
    /\ Exists(fs, <<"B", "build">>)

\* C10: with clear = 'both', a create on a directory an earlier create of the
\* same builder completed leaves the same generated files with the same
\* contents as that earlier create did, the sentinel value apart.
C10_Idempotent ==
    kwargs.clear = "both" =>
        \A i \in 1..Len(completed) : \A j \in (i + 1)..Len(completed) :
            completed[i].env_dir = completed[j].env_dir =>
                completed[i].generated = completed[j].generated

C10_Witness ==
    /\ kwargs.clear = "both"
    /\ kwargs.with_cross_pip
    /\ fs_init # EmptyFs
    /\ Len(completed) >= 2
    /\ completed[1].env_dir = completed[2].env_dir
    /\ completed[1].sentinel # completed[2].sentinel
    /\ DOMAIN completed[2].generated # {}
    /\ ~Exists(fs, <<"A", "build", "bin", "tool2">>)

\* --------------------------------------------------------------------------
\* Failures of discovery and validation
\* --------------------------------------------------------------------------
\* the target's metadata files, read off the disk
MetadataConflict ==
    \E f, g \in DOMAIN disk_files :
        disk_files[f].build_time_vars # disk_files[g].build_time_vars
MetadataVersionDiffers ==
    \E f \in DOMAIN disk_files : disk_files[f].build_time_vars.VERSION # BuildVersion

\* the inputs have one of the defects discovery and validation look for
DefectiveInput ==
    \/ target.host # "file"
    \/ target.layout = "source" /\ ~target.pybuilddir
    \/ DOMAIN disk_files = {}
    \/ MetadataConflict
    \/ target.makefile = "missing"
    \/ MetadataVersionDiffers
    \/ target.compiler # "ok"
    \/ CrossPipWithoutBuildPip

CompilerWasRun == \E i \in 1..Len(accessed) : accessed[i] = "run(cc --version)"

\* C12: when the compiler's version query fails, because the compiler exits
\* with an error or because its binary cannot be found or started,
\* find_compiler_info raises RuntimeError "Cannot run cross-compiler!"; no
\* other kind of error escapes and construction does not go on.
C12_ToolchainUnavailable ==
    (CompilerWasRun /\ target.compiler # "ok") =>
        /\ pc = "raised"
        /\ cur = 0
        /\ exc = "RuntimeError: Cannot run cross-compiler!"

MarkerWasOpened == \E i \in 1..Len(accessed) : accessed[i] = "open(pybuilddir.txt)"

\* C13: for a target in a source build tree whose pybuilddir.txt is absent or
\* unreadable, find_host_python raises the IOError that names the marker file
\* and tells the user to build the host Python first, and no other kind of
\* error.
C13_BuildIncomplete ==
    (MarkerWasOpened /\ target.layout = "source" /\ ~target.pybuilddir) =>
        /\ pc = "raised"
        /\ cur = 0
        /\ exc = "IOError: Cannot read pybuilddir.txt: Build the host Python first"

\* --------------------------------------------------------------------------
\* crossenv.cfg
\* --------------------------------------------------------------------------
\* str.title() on the system names that occur
TitleCase(x) == IF x = "linux" THEN "Linux" ELSE x

\* C14: the uname section of crossenv.cfg comes from host_platform: for a tag
\* <system>-<machine> sysname is the system part and machine the machine
\* part, for a tag without '-' sysname is the tag itself; the values are not
\* taken from the running machine's sys.platform.
C14_UnameFromHostPlatform ==
    \A d \in EnvDirNames :
        (cur >= 1 /\ Exists(fs, <<d, "crossenv.cfg">>)) =>
            LET uname == fs[<<d, "crossenv.cfg">>].data
                tag == self.host_platform
            IN /\ uname[1] \in {tag[1], TitleCase(tag[1])}
               /\ Len(tag) >= 2 => uname[2] = tag[Len(tag)]

\* --------------------------------------------------------------------------
\* parse_env_vars: malformed entries
\* --------------------------------------------------------------------------
NoEqualsEntries == {<<"F">>, <<>>}
EmptyNameEntries == {<<"=", "b">>}
OperatorOnlyEntries == {<<"?", "=", "b">>}
RejectedEntries ==
    NoEqualsEntries \cup EmptyNameEntries \cup OperatorOnlyEntries \cup BadNameEntries

\* C15: parse_env_vars rejects an entry with no '=', an entry with an empty
\* name, an entry that is only an operator and an entry whose name is not an
\* identifier with ValueError and with no other exception, and returns no
\* list then.
C15_MalformedRejected ==
    (parse_pos > 0 /\ env_vars[parse_pos] \in RejectedEntries) =>
        /\ parse_exc = "ValueError"
        /\ Len(parsed) = parse_pos - 1

\* --------------------------------------------------------------------------
\* The builder across create calls
\* --------------------------------------------------------------------------
LauncherOf(i) ==
    completed[i].generated[CrossEnvDir(self, completed[i].env_dir) \o <<"bin", PythonExe>>]
ConfigOf(i) == completed[i].generated[<<completed[i].env_dir, "crossenv.cfg">>]

SameConfigurationEachRun ==
    \A i, j \in 1..Len(completed) :
        /\ LauncherOf(i) = LauncherOf(j)
        /\ ConfigOf(i) = ConfigOf(j)
        /\ \A e \in {"build", "cross"} :
              \A k, l \in 1..Len(venv_calls) :
                  (venv_calls[k].env = e /\ venv_calls[l].env = e) =>
                      /\ venv_calls[k].clear = venv_calls[l].clear
                      /\ venv_calls[k].with_pip = venv_calls[l].with_pip

BuilderUnchanged ==
    cur >= 1 =>
        /\ self' = self
        /\ host_sysconfigdata_file' = host_sysconfigdata_file
        /\ paths' = paths
        /\ kwargs' = kwargs

\* per-run state is in the context of the call: a create starts from a new
\* context and takes nothing from the one before
FreshContext ==
    (pc = "ensure_directories" /\ pc' = "create_configuration") =>
        /\ context'.sentinel = 0
        /\ context'.cross_env_dir = <<>>
        /\ context'.build_pip_reqs = <<>>

\* C16: no create call, successful or failing, changes a field of the
\* builder, so every create uses the configuration the first one used; the
\* resolved paths, the sentinel and the captured pip requirements are in the
\* context the call made.
C16_BuilderImmutable ==
    /\ [][BuilderUnchanged /\ FreshContext]_vars
    /\ [](pc # "idle" => SameConfigurationEachRun)

C16_Witness ==
    /\ Len(completed) >= 2
    /\ completed[1].env_dir = "A" /\ completed[2].env_dir = "B"
    /\ Len(self.extra_env_vars) = 2
    /\ self.host_sysroot = "/sr"
    /\ Len(LauncherOf(2).envs) = 4
    /\ kwargs.with_cross_pip

====
